---- MODULE Spec2Model ----
(***************************************************************************)
(* State-machine model of the RTSP relay (rtsp-streaming-server):          *)
(* PublishServer, ClientServer, ClientWrapper, Client, Mount, RtpTcp and   *)
(* the interleaved framing.  Mounts (registry and port pool) and RtpUdp    *)
(* are not part of the sources at hand and follow the written design.      *)
(***************************************************************************)
EXTENDS Integers, Sequences, FiniteSets, TLC

\* ------------------------------------------------------------------ bounds
NumPubs == 2        \* publisher control connections
NumSubs == 1        \* subscriber control connections
MaxMounts == 2      \* Mount objects created over a run
MaxWrappers == 1    \* ClientWrapper objects created over a run
MaxClients == 1     \* Client objects created over a run
PoolPairs == 2      \* port pairs the pool is configured with
MaxStreamId == 0    \* stream ids 0..MaxStreamId
MaxSetupPasses == 1 \* restarts of Mount.setup / Client.setup followed

Pubs == 1..NumPubs
Subs == 1..NumSubs
MountIds == 1..MaxMounts
WrapperIds == 1..MaxWrappers
ClientIds == 1..MaxClients
StreamIds == 0..MaxStreamId
\* The stream ids a mount has a slot for: the interleaving specification
\* follows a publisher with one track more than the others.
TrackIds == 0..(MaxStreamId + 1)
Paths == {"a"}
NoMount == 0
NoPort == 0
NoStream == -1
NoAuth == ""
\* Authorization header values: two the authentication hook accepts and one
\* it rejects; NoAuth is a request without the header.
GoodAuths == {"A", "B"}
Auths == GoodAuths \cup {"Z"}

\* The configured pool: even start ports 2, 4, ...
InitPool == [i \in 1..PoolPairs |-> 2 * i]

VARIABLES
  hooks,               \* which hooks the host configured
  pool,                \* Mounts.rtpPorts
  registry,            \* Mounts.mounts: path -> mount id
  nMounts,             \* Mount objects constructed so far
  mounts,              \* Mount objects
  sobj,                \* RtspStream objects, by mount and stream id
  authenticatedHeader, \* PublishServer.authenticatedHeader
  pubs,                \* publisher connections and their suspended ANNOUNCE
  subs,                \* subscriber connections
  nWrappers, wrappers, \* ClientWrapper objects
  csClients,           \* ClientServer.clients (ids of the wrappers in it)
  gone,                \* clientGone calls suspended in the clientClose hook
  nClients, clients,   \* Client objects
  fan,                 \* the last payload admitted at a publisher ingress
  sent,                \* framing: the (channel, payload) pairs that were framed
  wire,                \* framing: the bytes written to the socket
  fed,                 \* framing: how many of them reached the deframer
  buffer,              \* framing: the deframer's buffer
  yielded,             \* framing: the (channel, payload) pairs deframed so far
  audience             \* the TCP sessions playing one stream, each with a
                       \* connection of its own, when only they are followed

heapVars == <<pool, registry, mounts, sobj, subs, nWrappers, wrappers,
              csClients, gone, nClients, clients>>
framingVars == <<sent, wire, fed, buffer, yielded, audience>>
vars == <<hooks, pool, registry, nMounts, mounts, sobj,
          authenticatedHeader, pubs, subs, nWrappers, wrappers, csClients,
          gone, nClients, clients, fan, sent, wire, fed, buffer,
          yielded, audience>>

\* ------------------------------------------------------------- sequences
Range(s) == {s[i] : i \in DOMAIN s}

RECURSIVE SetToSeq(_)
SetToSeq(S) ==
  IF S = {} THEN <<>>
  ELSE LET x == CHOOSE y \in S : \A z \in S : y <= z
       IN <<x>> \o SetToSeq(S \ {x})

\* ------------------------------------------------------------- port pool
\* next(): pops the smallest available port, none when exhausted.
getNextRtpPort(p) == IF Len(p) = 0 THEN NoPort ELSE Head(p)

PoolAfterGet(p) == IF Len(p) = 0 THEN p ELSE Tail(p)

\* release(port): reinserts the port in order (the pool is a multiset).
returnRtpPortToPool(p, port) ==
  LET k == Cardinality({i \in DOMAIN p : p[i] <= port})
  IN SubSeq(p, 1, k) \o <<port>> \o SubSeq(p, k + 1, Len(p))

RECURSIVE ReturnAll(_, _)
ReturnAll(p, ports) ==
  IF Len(ports) = 0 THEN p
  ELSE ReturnAll(returnRtpPortToPool(p, Head(ports)), Tail(ports))

\* --------------------------------------------------------------- objects
NoStreamObj == [made |-> FALSE, port |-> NoPort, lport |-> NoPort,
                clients |-> {}, tcpClients |-> {}]

NoMountObj == [made |-> FALSE, path |-> "a", pub |-> 0, streams |-> {},
               recorded |-> FALSE]

NoWrapper == [made |-> FALSE, mount |-> NoMount, auth |-> NoAuth,
              clients |-> {}, timer |-> FALSE]

NoClient == [made |-> FALSE, open |-> FALSE, wrapper |-> 0, mount |-> NoMount,
             sid |-> NoStream, sock |-> 0, transportType |-> "udp",
             rtpTcp |-> "none", ref |-> FALSE, rtpChannel |-> 0,
             rtcpChannel |-> 1, port |-> NoPort,
             \* RtpTcp.sendQueue, whether a write returned false and the
             \* socket's 'drain' is due, and two histories: the frames put
             \* on the queue, and what the session's socket was handed
             sendQueue |-> <<>>, drain |-> FALSE, queued |-> <<>>,
             written |-> <<>>]

\* The objects the handlers work on, as one record, so that a handler's
\* nested calls can be applied one after the other.
Heap == [pool |-> pool, registry |-> registry,
         mounts |-> mounts, sobj |-> sobj, subs |-> subs,
         nWrappers |-> nWrappers, wrappers |-> wrappers,
         csClients |-> csClients, gone |-> gone, nClients |-> nClients,
         clients |-> clients]

Commit(h) ==
  /\ pool' = h.pool
  /\ registry' = h.registry
  /\ mounts' = h.mounts
  /\ sobj' = h.sobj
  /\ subs' = h.subs
  /\ nWrappers' = h.nWrappers
  /\ wrappers' = h.wrappers
  /\ csClients' = h.csClients
  /\ gone' = h.gone
  /\ nClients' = h.nClients
  /\ clients' = h.clients

\* ---------------------------------------------------------------- RtpTcp
\* RtpTcp.close of client c's interleaver: guarded by the closed flag; drops
\* the queue, then end() and destroy() on the control socket.
RtpTcpCloseUnguarded(h, c) ==
  [h EXCEPT !.clients[c].rtpTcp = "closed",
            !.clients[c].sendQueue = <<>>,
            !.clients[c].drain = FALSE,
            !.subs[h.clients[c].sock] = IF @ = "open" THEN "destroyed" ELSE @]

RtpTcpClose(h, c) ==
  IF h.clients[c].rtpTcp # "open" THEN h ELSE RtpTcpCloseUnguarded(h, c)

\* ---------------------------------------------------------------- Client
\* Client.close of an open session c: off the stream's clients map, the
\* interleaver or the UDP sockets closed, the port pair back to the pool.
ClientCloseOpen(h, c) ==
  LET cl == h.clients[c]
      h1 == [h EXCEPT !.clients[c].open = FALSE]
      h2 == IF cl.sid # NoStream
            THEN [h1 EXCEPT !.sobj[cl.mount][cl.sid].clients = @ \ {c}]
            ELSE h1
      h3 == IF cl.ref
            THEN [RtpTcpClose(h2, c) EXCEPT !.clients[c].ref = FALSE]
            ELSE h2
      \* the second tcp branch tests this.rtpTcp, which is undefined by now:
      \* stream.tcpClients keeps the entry
      h4 == IF cl.port # NoPort
            THEN [h3 EXCEPT !.pool = returnRtpPortToPool(@, cl.port)]
            ELSE h3
  IN h4

\* Client.close without its open guard.
ClientCloseUnguarded(h, c) == ClientCloseOpen(h, c)

\* Client.close: nothing when the session is not open.
ClientClose(h, c) ==
  IF ~h.clients[c].open THEN h ELSE ClientCloseOpen(h, c)

RECURSIVE CloseClients(_, _)
CloseClients(h, cs) ==
  IF Len(cs) = 0 THEN h ELSE CloseClients(ClientClose(h, Head(cs)), Tail(cs))

RECURSIVE CloseRtpTcps(_, _)
CloseRtpTcps(h, cs) ==
  IF Len(cs) = 0 THEN h ELSE CloseRtpTcps(RtpTcpClose(h, Head(cs)), Tail(cs))

\* Client.play: stream.clients[id] = this; a TypeError when the session has
\* no stream.
ClientPlay(h, c) ==
  LET cl == h.clients[c]
  IN [h EXCEPT !.sobj[cl.mount][cl.sid].clients = @ \cup {c}]

\* ---------------------------------------------------------- ClientServer
\* ClientServer.clientGone up to its await: with a clientClose hook the
\* wrapper's mount is read from this.clients (a TypeError when the wrapper is
\* not there) and the hook is invoked; without one the entry is deleted.
clientGone(h, w) ==
  IF hooks.clientClose
  THEN IF w \in h.csClients
       THEN [h EXCEPT !.gone[w] = @ + 1]
       ELSE h
  ELSE [h EXCEPT !.csClients = @ \ {w}]

\* --------------------------------------------------------- ClientWrapper
\* ClientWrapper.close: clear the timer, close every session, clientGone.
WrapperClose(h, w) ==
  LET h1 == [h EXCEPT !.wrappers[w].timer = FALSE]
      h2 == CloseClients(h1, SetToSeq(h.wrappers[w].clients))
  IN clientGone(h2, w)

\* ClientWrapper.keepalive: cancel the pending timer and arm a new one.
keepalive(h, w) == [h EXCEPT !.wrappers[w].timer = TRUE]

\* ----------------------------------------------------------------- Mount
\* One stream's part of Mount.close: collect both listener ports, close the
\* listeners, close the playing sessions, clear both maps.
MountCloseStream(r, m, sid) ==
  LET st == r.h.sobj[m][sid]
      h2 == CloseClients(r.h, SetToSeq(st.clients))
      h3 == [h2 EXCEPT !.sobj[m][sid].clients = {}]
      h4 == CloseRtpTcps(h3, SetToSeq(st.tcpClients))
      h5 == [h4 EXCEPT !.sobj[m][sid].tcpClients = {}]
  IN [h |-> h5, ports |-> r.ports \o <<st.lport, st.lport + 1>>]

RECURSIVE MountCloseStreams(_, _, _)
MountCloseStreams(r, m, sids) ==
  IF Len(sids) = 0 THEN r
  ELSE MountCloseStreams(MountCloseStream(r, m, Head(sids)), m, Tail(sids))

\* Mount.close: returns the heap after it and the ports it collected.
MountClose(h, m) ==
  LET r == MountCloseStreams([h |-> h, ports |-> <<>>], m,
                             SetToSeq(h.mounts[m].streams))
  IN [h |-> [r.h EXCEPT !.mounts[m].streams = {},
                        !.mounts[m].recorded = FALSE],
      ports |-> r.ports]

\* ---------------------------------------------------------------- Mounts
getMount(h, path) == h.registry[path]

deleteMount(h, path) == [h EXCEPT !.registry[path] = NoMount]

\* --------------------------------------------------------- PublishServer
\* handlePublisherDisconnect(mount, socket): close the mount, return every
\* port it reports, delete whatever the registry holds at the mount's path.
handlePublisherDisconnect(h, m) ==
  LET r == MountClose(h, m)
      h1 == [r.h EXCEPT !.pool = ReturnAll(@, r.ports)]
  IN IF getMount(h1, h1.mounts[m].path) # NoMount
     THEN deleteMount(h1, h1.mounts[m].path)
     ELSE h1

RECURSIVE DisconnectAll(_, _)
DisconnectAll(h, ms) ==
  IF Len(ms) = 0 THEN h
  ELSE DisconnectAll(handlePublisherDisconnect(h, Head(ms)), Tail(ms))

\* A createStream that takes a port before it looks for the stream id.
createStreamPortFirst(h, m, sid) ==
  LET port == getNextRtpPort(h.pool)
  IN IF port = NoPort
     THEN [ok |-> FALSE, h |-> h]
     ELSE IF sid \in h.mounts[m].streams
          THEN [ok |-> FALSE, h |-> [h EXCEPT !.pool = PoolAfterGet(@)]]
          ELSE [ok |-> TRUE,
                h |-> [h EXCEPT !.pool = PoolAfterGet(@),
                                !.mounts[m].streams = @ \cup {sid},
                                !.sobj[m][sid] = [NoStreamObj EXCEPT
                                                    !.made = TRUE,
                                                    !.port = port,
                                                    !.lport = port]]]

\* Mount.createStream on mount m for stream id sid: the heap after it, or
\* failed when the stream exists or the pool is empty.
createStream(h, m, sid) ==
  LET port == getNextRtpPort(h.pool)
  IN IF sid \in h.mounts[m].streams \/ port = NoPort
     THEN [ok |-> FALSE, h |-> h]
     ELSE [ok |-> TRUE,
           h |-> [h EXCEPT !.pool = PoolAfterGet(@),
                           !.mounts[m].streams = @ \cup {sid},
                           !.sobj[m][sid] = [NoStreamObj EXCEPT
                                               !.made = TRUE,
                                               !.port = port,
                                               !.lport = port]]]

\* One stream's part of a Mount.setup pass: new listeners on the stream's
\* pair; on EADDRINUSE the pair goes back and the next one is taken.  busy: the ports whose bind fails
\* with EADDRINUSE while this RECORD is handled.
MountSetupStream(r, m, sid, busy) ==
  LET st == r.h.sobj[m][sid]
      udp == \E c \in st.clients : r.h.clients[c].transportType = "udp"
      h1 == [r.h EXCEPT !.sobj[m][sid].lport = st.port]
      back == returnRtpPortToPool(h1.pool, st.port)
      nextStartPort == getNextRtpPort(back)
  IN IF ~udp THEN r
     ELSE IF st.port \notin busy THEN [r EXCEPT !.h = h1]
     ELSE IF nextStartPort = NoPort
     THEN [r EXCEPT !.h = [h1 EXCEPT !.pool = back], !.failed = TRUE]
     ELSE [r EXCEPT !.h = [h1 EXCEPT !.pool = PoolAfterGet(back),
                                     !.sobj[m][sid].port = nextStartPort],
                    !.portError = TRUE]

RECURSIVE MountSetupStreams(_, _, _, _)
MountSetupStreams(r, m, sids, busy) ==
  IF Len(sids) = 0 \/ r.failed THEN r
  ELSE MountSetupStreams(MountSetupStream(r, m, Head(sids), busy), m,
                         Tail(sids), busy)

\* Mount.setup: passes over the streams until one pass sees no port error.
\* failed: it threw for want of a port; done is FALSE also when it is still
\* restarting after fuel restarts.
RECURSIVE MountSetup(_, _, _, _)
MountSetup(h, m, busy, fuel) ==
  LET r == MountSetupStreams([h |-> h, portError |-> FALSE, failed |-> FALSE],
                             m, SetToSeq(h.mounts[m].streams), busy)
  IN IF r.failed THEN [h |-> r.h, done |-> FALSE, failed |-> TRUE]
     ELSE IF ~r.portError THEN [h |-> r.h, done |-> TRUE, failed |-> FALSE]
     ELSE IF fuel = 0 THEN [h |-> r.h, done |-> FALSE, failed |-> FALSE]
     ELSE MountSetup(r.h, m, busy, fuel - 1)

\* ----------------------------------------------- PublishServer: requests
pubRest == <<hooks, subs, nWrappers, wrappers, csClients, gone, nClients,
             clients, fan, framingVars>>

\* PublishServer.checkAuthenticated: the request's header against the one
\* header the server remembers.
PubCheckAuthenticated(auth) ==
  ~(hooks.pubAuth /\ authenticatedHeader # NoAuth /\ auth # authenticatedHeader)

\* A request of connection p is taken up when the connection is open and no
\* ANNOUNCE of it is suspended.
CanRequest(p) == pubs[p].sock = "open" /\ pubs[p].pc = "idle"

\* ANNOUNCE up to its first suspension: the authentication hook, or the end
\* of the request body.  Without the header and with the hook: 401.
announceRequest(p, path, auth) ==
  /\ CanRequest(p)
  /\ UNCHANGED <<pubRest, pool, registry, nMounts, mounts, sobj,
                 authenticatedHeader>>
  /\ IF hooks.pubAuth /\ auth = NoAuth
     THEN UNCHANGED pubs
     ELSE pubs' = [pubs EXCEPT ![p].pc = IF hooks.pubAuth THEN "auth" ELSE "body",
                               ![p].path = path,
                               ![p].auth = IF hooks.pubAuth THEN auth ELSE NoAuth]

\* The authentication hook resolves: the header is remembered, or 401.
announceAuthenticated(p) ==
  /\ pubs[p].pc = "auth"
  /\ UNCHANGED <<pubRest, pool, registry, nMounts, mounts, sobj>>
  /\ IF pubs[p].auth \in GoodAuths
     THEN /\ authenticatedHeader' = pubs[p].auth
          /\ pubs' = [pubs EXCEPT ![p].pc = "body", ![p].auth = NoAuth]
     ELSE /\ pubs' = [pubs EXCEPT ![p].pc = "idle", ![p].auth = NoAuth]
          /\ UNCHANGED authenticatedHeader

\* An ANNOUNCE handler that does not ask whether the path is mounted.
AnnounceUnchecked(path) == FALSE

\* Is the path mounted, as the ANNOUNCE handler asks right before addMount.
AnnounceMounted(path) == getMount(Heap, path) # NoMount

\* The status the 'end' handler of connection p's ANNOUNCE answers with, when
\* the checkMount hook (if any) says allowed.
announceStatus(p, allowed) ==
  IF hooks.checkMount /\ ~allowed THEN 403
  ELSE IF AnnounceMounted(pubs[p].path) THEN 503
  ELSE 200

\* The request's 'end' event, the checkMount hook it awaits when configured
\* (nothing is written between the two), and the rest of the handler: 403,
\* 503, or addMount, the disconnect handlers on the socket, the Session header.
announceEnd(p, allowed) ==
  LET path == pubs[p].path
      m == nMounts + 1
  IN
  /\ pubs[p].pc = "body"
  /\ UNCHANGED <<pubRest, authenticatedHeader, pool, sobj>>
  /\ pubs' = [pubs EXCEPT ![p].pc = "idle"]
  /\ IF announceStatus(p, allowed) # 200
     THEN UNCHANGED <<registry, nMounts, mounts>>
     ELSE /\ nMounts < MaxMounts
          /\ nMounts' = m
          /\ registry' = [registry EXCEPT ![path] = m]
          /\ mounts' = [mounts EXCEPT ![m] = [NoMountObj EXCEPT !.made = TRUE,
                                                !.path = path,
                                                !.pub = IF pubs[p].sock = "open"
                                                        THEN p ELSE 0]]

\* The interleaved channels a Transport header names (0-1 when it names none).
ChannelPairs == {<<0, 1>>, <<2, 3>>}

\* Publishers are followed with the default channels only.
PubChannelPairs == {<<0, 1>>}

\* SETUP of a publisher: 401, 404, or (TCP) the data handler on the socket
\* and then createStream; no response when createStream throws.
PublishSetupRequest(p, path, sid, tcp, ch, auth) ==
  LET m == getMount(Heap, path)
      cs == createStream(Heap, m, sid)
      handler == [m |-> m, sid |-> sid, rtpChannel |-> ch[1], rtcpChannel |-> ch[2]]
  IN
  /\ CanRequest(p)
  /\ UNCHANGED <<hooks, fan, framingVars, nMounts, authenticatedHeader>>
  /\ IF ~PubCheckAuthenticated(auth) \/ m = NoMount
     THEN UNCHANGED <<heapVars, pubs>>
     ELSE /\ pubs' = IF tcp THEN [pubs EXCEPT ![p].handlers = @ \cup {handler}]
                     ELSE pubs
          /\ Commit(cs.h)

\* RECORD: 401, 454 when the path has no mount or the Session header is not
\* the mount's id, else Mount.setup.
\* A RECORD handler that does not compare the Session header.
RecordAnySession(m, session) == m = NoMount

\* The test RECORD answers 454 on: no mount, or another Session than its id.
RecordRefused(m, session) == m = NoMount \/ m # session

\* What the RECORD handler does in heap h: its status (0 while Mount.setup is
\* still restarting) and the heap after it.
recordOutcome(h, path, session, busy, auth) ==
  LET m == getMount(h, path)
      r == MountSetup(h, m, busy, MaxSetupPasses)
  IN IF ~PubCheckAuthenticated(auth) THEN [status |-> 401, h |-> h]
     ELSE IF RecordRefused(m, session) THEN [status |-> 454, h |-> h]
     ELSE [status |-> IF r.done THEN 200 ELSE IF r.failed THEN 500 ELSE 0,
           h |-> [r.h EXCEPT !.mounts[m].recorded = @ \/ r.done]]

recordRequest(p, path, session, busy, auth) ==
  /\ CanRequest(p)
  /\ UNCHANGED <<hooks, fan, framingVars, nMounts, authenticatedHeader, pubs>>
  /\ Commit(recordOutcome(Heap, path, session, busy, auth).h)

\* TEARDOWN of a publisher: 401, else deleteMount of the request's path.
PublishTeardownRequest(p, path, auth) ==
  /\ CanRequest(p)
  /\ UNCHANGED <<hooks, fan, framingVars, nMounts, authenticatedHeader, pubs>>
  /\ IF ~PubCheckAuthenticated(auth)
     THEN UNCHANGED heapVars
     ELSE Commit(deleteMount(Heap, path))

\* The publisher socket's 'close' event (after an 'error' event when
\* withError): every disconnect handler registered on it runs, once per event.
PublisherSocketClosed(p, withError) ==
  LET ms == SetToSeq({m \in MountIds : mounts[m].pub = p})
      h1 == DisconnectAll(Heap, ms)
      h2 == IF withError THEN DisconnectAll(h1, ms) ELSE h1
  IN
  /\ pubs[p].sock = "open"
  /\ pubs' = [pubs EXCEPT ![p].sock = "closed", ![p].handlers = {}]
  /\ Commit([h2 EXCEPT !.mounts = [m \in MountIds |->
                 IF @[m].pub = p THEN [@[m] EXCEPT !.pub = 0] ELSE @[m]]])
  /\ UNCHANGED <<hooks, fan, framingVars, nMounts, authenticatedHeader>>

\* A new publisher connection is accepted (it takes the place of a closed one
\* whose requests have all ended).
publisherConnected(p) ==
  /\ pubs[p].sock = "closed" /\ pubs[p].pc = "idle"
  /\ pubs' = [pubs EXCEPT ![p].sock = "open"]
  /\ UNCHANGED <<hooks, heapVars, fan, framingVars, nMounts, authenticatedHeader>>

\* ------------------------------------------------ ClientServer: requests
subRest == <<hooks, nMounts, authenticatedHeader, pubs, fan, framingVars>>

\* The Transport headers a subscriber SETUP may carry: none, UDP with and
\* without client_port, TCP with its interleaved channels.
SubTransports ==
  {[kind |-> k, ch |-> <<0, 1>>] : k \in {"none", "udp", "udpnoport"}}
    \cup {[kind |-> "tcp", ch |-> ch] : ch \in ChannelPairs}

\* A checkAuthenticated that does not compare the session's stored header.
NoSessionCheck(h, session, auth) == FALSE

\* The comparison of ClientServer.checkAuthenticated: the request names a
\* session in clients whose stored header is not the request's.
SessionMismatch(h, session, auth) ==
  session # 0 /\ session \in h.csClients /\ h.wrappers[session].auth # auth

\* ClientServer.checkAuthenticated: TRUE when the request may proceed.  The
\* session's stored header is compared before the hook is asked; the hook
\* accepts the headers in GoodAuths.
SubCheckAuthenticated(h, session, auth) ==
  IF hooks.subAuth
  THEN auth # NoAuth /\ ~SessionMismatch(h, session, auth) /\ auth \in GoodAuths
  ELSE TRUE

\* Any bytes on a subscriber's control socket refresh the keepalive of every
\* wrapper with a TCP session set up on it (the 'data' listener of
\* ClientWrapper.addClient).
RECURSIVE KeepaliveAll(_, _)
KeepaliveAll(h, ws) ==
  IF Len(ws) = 0 THEN h ELSE KeepaliveAll(keepalive(h, Head(ws)), Tail(ws))

DataListeners(h, s) ==
  {h.clients[c].wrapper : c \in
     {d \in ClientIds : /\ h.clients[d].made
                        /\ h.clients[d].sock = s
                        /\ h.clients[d].transportType = "tcp"}}

SocketData(h, s) == KeepaliveAll(h, SetToSeq(DataListeners(h, s)))

\* Client.setup of a UDP session: fails binds with EADDRINUSE, each answered
\* by returning the pair and taking the next one.
RECURSIVE ClientSetup(_, _, _)
ClientSetup(h, c, fails) ==
  IF fails = 0 THEN h
  ELSE LET back == returnRtpPortToPool(h.pool, h.clients[c].port)
           port == getNextRtpPort(back)
       IN ClientSetup([h EXCEPT !.pool = PoolAfterGet(back),
                                !.clients[c].port = port], c, fails - 1)

\* new Client(mount, req) and ClientWrapper.addClient for wrapper w: the heap
\* after it, or failed when the constructor throws.
addClient(h, w, c, s, path, sid, tr) ==
  LET m == h.wrappers[w].mount
      stream == IF sid \in h.mounts[m].streams THEN sid ELSE NoStream
      port == getNextRtpPort(h.pool)
      base == [NoClient EXCEPT !.made = TRUE, !.open = TRUE, !.wrapper = w,
                               !.mount = m, !.sid = stream, !.sock = s]
  IN IF h.mounts[m].path # path \/ tr.kind = "none"
     THEN [ok |-> FALSE, h |-> h]
     ELSE IF tr.kind = "tcp"
     THEN IF stream = NoStream
          THEN [ok |-> FALSE, h |-> h]
          ELSE [ok |-> TRUE,
                h |-> [h EXCEPT !.nClients = c,
                                !.clients[c] = [base EXCEPT
                                    !.transportType = "tcp",
                                    !.rtpTcp = "open", !.ref = TRUE,
                                    !.rtpChannel = tr.ch[1],
                                    !.rtcpChannel = tr.ch[2]],
                                !.sobj[m][stream].tcpClients = @ \cup {c},
                                !.wrappers[w].clients = @ \cup {c}]]
     ELSE IF tr.kind = "udpnoport" \/ port = NoPort
     THEN [ok |-> FALSE, h |-> h]
     ELSE [ok |-> TRUE,
           h |-> [h EXCEPT !.nClients = c,
                           !.clients[c] = [base EXCEPT !.port = port],
                           !.pool = PoolAfterGet(@),
                           !.wrappers[w].clients = @ \cup {c}]]

\* What a subscriber handler does with a request: the status it answers with
\* (0: it ends without a response) and the objects after it.  room is FALSE
\* when the request needs an object beyond the ones that are followed.
Outcome(status, h) == [status |-> status, h |-> h, room |-> TRUE]
NoRoom(h) == [status |-> 0, h |-> h, room |-> FALSE]

\* SETUP of a subscriber arriving on socket s.  fails: the binds of
\* Client.setup that end in EADDRINUSE; bound: whether the last bind succeeds.
ClientSetupRequest(s, path, sid, session, tr, auth, fails, bound) ==
  LET h0 == SocketData(Heap, s)
      fresh == session = 0
      w == IF fresh THEN h0.nWrappers + 1 ELSE session
      m == getMount(h0, path)
      h1 == IF fresh
            THEN [h0 EXCEPT !.nWrappers = w,
                            !.wrappers[w] = [NoWrapper EXCEPT !.made = TRUE,
                                               !.mount = m, !.auth = auth],
                            !.csClients = @ \cup {w}]
            ELSE h0
      c == h0.nClients + 1
      a == addClient(h1, w, c, s, path, sid, tr)
      h2 == IF tr.kind = "udp" THEN ClientSetup(a.h, c, fails) ELSE a.h
  IN IF ~SubCheckAuthenticated(h0, session, auth) THEN Outcome(401, h0)
     ELSE IF fresh /\ m = NoMount THEN Outcome(404, h0)
     ELSE IF ~fresh /\ session \notin h0.csClients THEN Outcome(0, h0)
     ELSE IF (fresh /\ h0.nWrappers >= MaxWrappers) \/ h0.nClients >= MaxClients
     THEN NoRoom(h0)
     ELSE IF ~a.ok THEN Outcome(0, h1)
     ELSE Outcome(IF bound THEN 200 ELSE 500, h2)

\* ClientWrapper.play: Client.play of every session in turn, stopping at the
\* first one without a stream (a TypeError), then keepalive.
RECURSIVE PlayClients(_, _)
PlayClients(r, cs) ==
  IF Len(cs) = 0 \/ ~r.ok THEN r
  ELSE IF r.h.clients[Head(cs)].sid = NoStream
  THEN [r EXCEPT !.ok = FALSE]
  ELSE PlayClients([r EXCEPT !.h = ClientPlay(r.h, Head(cs))], Tail(cs))

WrapperPlay(h, w) ==
  LET r == PlayClients([h |-> h, ok |-> TRUE], SetToSeq(h.wrappers[w].clients))
  IN IF r.ok THEN [r EXCEPT !.h = keepalive(r.h, w)] ELSE r

\* PLAY.
playRequest(s, session, auth) ==
  LET h0 == SocketData(Heap, s)
      r == WrapperPlay(h0, session)
  IN IF ~SubCheckAuthenticated(h0, session, auth) THEN Outcome(401, h0)
     ELSE IF session = 0 \/ session \notin h0.csClients THEN Outcome(454, h0)
     ELSE Outcome(IF r.ok THEN 200 ELSE 0, r.h)

\* TEARDOWN of a subscriber: close the wrapper, delete it from clients.
ClientTeardownRequest(s, session, auth) ==
  LET h0 == SocketData(Heap, s)
      h1 == WrapperClose(h0, session)
  IN IF ~SubCheckAuthenticated(h0, session, auth) THEN Outcome(401, h0)
     ELSE IF session = 0 \/ session \notin h0.csClients THEN Outcome(454, h0)
     ELSE Outcome(200, [h1 EXCEPT !.csClients = @ \ {session}])

\* OPTIONS: with a Session header, authenticate and refresh the keepalive.
optionsRequest(s, session, auth) ==
  LET h0 == SocketData(Heap, s)
  IN IF session = 0 THEN Outcome(200, h0)
     ELSE IF ~SubCheckAuthenticated(h0, session, auth) THEN Outcome(401, h0)
     ELSE IF session \notin h0.csClients THEN Outcome(454, h0)
     ELSE Outcome(200, keepalive(h0, session))

\* A request reaches the subscriber server on socket s and is handled.
SubscriberRequest(s, o) ==
  /\ subs[s] = "open"
  /\ o.room
  /\ Commit(o.h)
  /\ UNCHANGED subRest

\* ------------------------------------------------------- timers, sockets
\* A clientGone call may be suspended in the clientClose hook this many times
\* per wrapper before the keepalive timer is followed further.
MaxGone == 1

\* The keepalive timer of wrapper w fires: ClientWrapper.close.
keepaliveExpired(w) ==
  /\ wrappers[w].made /\ wrappers[w].timer
  /\ gone[w] < MaxGone
  /\ Commit(WrapperClose(Heap, w))
  /\ UNCHANGED subRest

\* The clientClose hook resolves: the rest of clientGone deletes the entry.
clientGoneResolved(w) ==
  /\ gone[w] > 0
  /\ Commit([Heap EXCEPT !.gone[w] = @ - 1, !.csClients = @ \ {w}])
  /\ UNCHANGED subRest

\* Is wrapper w's mount gone, as the sweep asks: by the mount's path.
Stalled(h, w) == getMount(h, h.mounts[h.wrappers[w].mount].path) = NoMount

RECURSIVE SweepWrappers(_, _)
SweepWrappers(h, ws) ==
  IF Len(ws) = 0 THEN h
  ELSE LET w == Head(ws)
       IN SweepWrappers(IF Stalled(h, w)
                        THEN [WrapperClose(h, w) EXCEPT !.csClients = @ \ {w}]
                        ELSE h,
                        Tail(ws))

\* One run of the interval callback checkMounts.
checkMounts ==
  /\ Commit(SweepWrappers(Heap, SetToSeq(csClients)))
  /\ UNCHANGED subRest

\* The 'close' event of a subscriber's control socket (after an 'error' event
\* when withError): the listeners of every Client and RtpTcp made on it.
RECURSIVE SocketHandlers(_, _)
SocketHandlers(h, cs) ==
  IF Len(cs) = 0 THEN h
  ELSE SocketHandlers(RtpTcpClose(ClientClose(h, Head(cs)), Head(cs)), Tail(cs))

SubscriberSocketClosed(s, withError) ==
  LET cs == SetToSeq({c \in ClientIds : clients[c].made /\ clients[c].sock = s})
      h0 == [Heap EXCEPT !.subs[s] = "closed"]
      h1 == SocketHandlers(h0, cs)
      h2 == IF withError THEN SocketHandlers(h1, cs) ELSE h1
  IN
  /\ subs[s] # "closed"
  /\ withError => subs[s] = "open"
  /\ Commit(h2)
  /\ UNCHANGED subRest

\* A datagram on the RTCP socket of UDP session c refreshes its wrapper.
rtcpReceived(c) ==
  /\ clients[c].made /\ clients[c].open /\ clients[c].transportType = "udp"
  /\ ~wrappers[clients[c].wrapper].timer
  /\ Commit(keepalive(Heap, clients[c].wrapper))
  /\ UNCHANGED subRest

\* ---------------------------------------------------------------- ingress
ingressRest == <<hooks, heapVars, nMounts, authenticatedHeader, pubs,
                 framingVars>>

NoFan == [kind |-> "none", role |-> "none", playing |-> {}, offered |-> {}]

\* The sessions in PLAY state on stream sid of mount m.
Playing(m, sid) ==
  {c \in ClientIds : /\ clients[c].made /\ clients[c].open
                     /\ clients[c].mount = m /\ clients[c].sid = sid
                     /\ c \in sobj[m][sid].clients}

\* The sessions the publisher's TCP data handler hands a frame to: the TCP
\* sessions in the clients map of stream 0 of the handler's mount.
TcpFanOut(m) ==
  IF 0 \in mounts[m].streams
  THEN {c \in sobj[m][0].clients :
          clients[c].transportType = "tcp" /\ clients[c].ref}
  ELSE {}

\* One complete interleaved frame on channel ch reaches the data handler hd
\* that a TCP SETUP installed on publisher socket p.
publisherFrame(p, hd, ch) ==
  LET role == IF ch = hd.rtpChannel THEN "rtp"
              ELSE IF ch = hd.rtcpChannel THEN "rtcp" ELSE "none"
  IN
  /\ pubs[p].sock = "open"
  /\ hd \in pubs[p].handlers
  /\ hd.sid \in mounts[hd.m].streams
  /\ fan' = [kind |-> "tcp", role |-> role,
             playing |-> Playing(hd.m, hd.sid),
             offered |-> IF role = "none" THEN {} ELSE TcpFanOut(hd.m)]
  /\ UNCHANGED ingressRest

\* The sessions a UDP listener of stream sid of mount m forwards a datagram
\* to: the clients map and the interleavers of the stream.
UdpFanOut(m, sid) == sobj[m][sid].clients \cup sobj[m][sid].tcpClients

\* A datagram reaches the RTP or the RTCP listener of a stream.
publisherDatagram(m, sid, role) ==
  /\ mounts[m].made /\ sid \in mounts[m].streams
  /\ fan' = [kind |-> "udp", role |-> role,
             playing |-> Playing(m, sid), offered |-> UdpFanOut(m, sid)]
  /\ UNCHANGED ingressRest

\* --------------------------------------------------------------- framing
\* The '$' that starts an interleaved frame.
Dollar == 36

\* Frames, payload bytes and noise bytes that are followed.
MaxFrames == 2
MaxPayload == 2
MaxNoise == 4

\* The length read with the bytes in the other order.
readUInt16LE(buf, at) == buf[at + 1] * 256 + buf[at]

\* Buffer.readUInt16BE(at), with at counted from 1.
readUInt16BE(buf, at) == buf[at] * 256 + buf[at + 1]

\* RtpTcp.queuePacket: the 4-byte header and the packet.
queuePacket(channel, packet) ==
  <<Dollar, channel, Len(packet) \div 256, Len(packet) % 256>> \o packet

\* Buffer.indexOf(0x24, 1) counted from 1; 0 when there is none.
NextDollar(buf) ==
  LET at == {i \in 2..Len(buf) : buf[i] = Dollar}
  IN IF at = {} THEN 0 ELSE CHOOSE i \in at : \A j \in at : i <= j

\* The while loop of the publisher's data handler on the buffer buf: what is
\* left in the buffer and the (channel, payload) pairs deframed, after out.
RECURSIVE Deframe(_, _)
Deframe(buf, out) ==
  IF Len(buf) < 4 THEN [buffer |-> buf, out |-> out]
  ELSE IF buf[1] # Dollar
  THEN IF NextDollar(buf) = 0
       THEN Deframe(<<>>, out)
       ELSE Deframe(SubSeq(buf, NextDollar(buf), Len(buf)), out)
  ELSE LET channel == buf[2]
           totalLength == readUInt16BE(buf, 3) + 4
       IN IF Len(buf) < totalLength
          THEN [buffer |-> buf, out |-> out]
          ELSE Deframe(SubSeq(buf, totalLength + 1, Len(buf)),
                       Append(out, [channel |-> channel,
                                    payload |-> SubSeq(buf, 5, totalLength)]))

\* A 'data' event with the next n bytes of the wire.
socketData(n) ==
  LET r == Deframe(buffer \o SubSeq(wire, fed + 1, fed + n), yielded)
  IN
  /\ fed + n <= Len(wire)
  /\ fed' = fed + n
  /\ buffer' = r.buffer
  /\ yielded' = r.out
  /\ UNCHANGED <<hooks, heapVars, nMounts, authenticatedHeader, pubs, fan,
                 sent, wire, audience>>

\* The inputs: payloads over two byte values, two channels, and before each
\* frame a run of noise bytes (none of them '$').
RECURSIVE SeqsUpTo(_, _)
SeqsUpTo(S, n) ==
  IF n = 0 THEN {<<>>}
  ELSE SeqsUpTo(S, n - 1) \cup
       {Append(q, x) : q \in {r \in SeqsUpTo(S, n - 1) : Len(r) = n - 1}, x \in S}

Payloads == SeqsUpTo({1, Dollar}, MaxPayload)
FrameChannels == {0, Dollar}
Noises == {[i \in 1..n |-> 1] : n \in 0..MaxNoise}
Packets == [channel : FrameChannels, payload : Payloads, noise : Noises]

RECURSIVE WireOf(_)
WireOf(ps) ==
  IF Len(ps) = 0 THEN <<>>
  ELSE Head(ps).noise \o queuePacket(Head(ps).channel, Head(ps).payload)
         \o WireOf(Tail(ps))

PairsOf(ps) == [i \in DOMAIN ps |-> [channel |-> ps[i].channel,
                                     payload |-> ps[i].payload]]

NoAudience == [clients |-> <<>>]

DeframerIdle ==
  /\ sent = <<>> /\ wire = <<>> /\ fed = 0 /\ buffer = <<>> /\ yielded = <<>>

FramingIdle == DeframerIdle /\ audience = NoAudience

\* ----------------------------------------------------- interleaved sends
\* Frames queued for one session, writes followed on its socket, and the
\* payloads the publisher sends.
MaxRelayed == 2
MaxWritten == 3
RelayPayloads == {<<1>>, <<2>>}

\* RtpTcp.processQueue of session c's interleaver.  Of the writes of the loop
\* the first k return true and the next one, if the queue holds one, returns
\* false: the socket has taken that packet as well, and the loop leaves
\* before the shift.  Nothing runs between a call and its return, so the
\* sending flag is false at every call.
processQueue(h, c, k) ==
  LET cl == h.clients[c]
      n == Len(cl.sendQueue)
  IN IF cl.rtpTcp # "open" \/ n = 0 THEN h
     ELSE IF k >= n
     THEN [h EXCEPT !.clients[c].written = @ \o cl.sendQueue,
                    !.clients[c].sendQueue = <<>>]
     ELSE [h EXCEPT !.clients[c].written = @ \o SubSeq(cl.sendQueue, 1, k + 1),
                    !.clients[c].sendQueue = SubSeq(cl.sendQueue, k + 1, n),
                    !.clients[c].drain = TRUE]

\* RtpTcp.queuePacket(packet, isRtp) of session c's interleaver.
QueuePacket(h, c, packet, isRtp, k) ==
  LET cl == h.clients[c]
      fullPacket == queuePacket(IF isRtp THEN cl.rtpChannel
                                ELSE cl.rtcpChannel, packet)
  IN IF cl.rtpTcp # "open" THEN h
     ELSE processQueue([h EXCEPT !.clients[c].sendQueue = Append(@, fullPacket),
                                 !.clients[c].queued = Append(@, fullPacket)],
                       c, k)

\* RtpTcp.sendInterleavedRtp and sendInterleavedRtcp; interleaved is true and
\* clientSocket set from the constructor on.
sendInterleavedRtp(h, c, packet, k) ==
  IF h.clients[c].rtpTcp # "open" THEN h ELSE QueuePacket(h, c, packet, TRUE, k)

sendInterleavedRtcp(h, c, packet, k) ==
  IF h.clients[c].rtpTcp # "open" THEN h ELSE QueuePacket(h, c, packet, FALSE, k)

\* The send of a Client on its UDP socket: the datagram is handed over.
UdpSend(h, c, packet) == [h EXCEPT !.clients[c].written = Append(@, packet)]

\* Client.sendRtp after its open guard.
sendRtpOpen(h, c, packet, k) ==
  LET cl == h.clients[c]
  IN IF cl.transportType = "tcp" /\ cl.ref
     THEN sendInterleavedRtp(h, c, packet, k)
     ELSE IF cl.transportType = "udp" THEN UdpSend(h, c, packet) ELSE h

\* A sendRtp that does not look at the open flag.
sendRtpUnguarded(h, c, packet, k) == sendRtpOpen(h, c, packet, k)

\* Client.sendRtp and Client.sendRtcp.
sendRtp(h, c, packet, k) ==
  IF ~h.clients[c].open THEN h ELSE sendRtpOpen(h, c, packet, k)

sendRtcp(h, c, packet, k) ==
  LET cl == h.clients[c]
  IN IF ~cl.open THEN h
     ELSE IF cl.transportType = "tcp" /\ cl.ref
     THEN sendInterleavedRtcp(h, c, packet, k)
     ELSE IF cl.transportType = "udp" THEN UdpSend(h, c, packet) ELSE h

\* A dispatch that goes no further once a send has left a session waiting
\* for its socket to drain.
RECURSIVE DispatchUntilBlocked(_, _, _, _, _, _)
DispatchUntilBlocked(h, hd, ch, payload, cs, ks) ==
  IF cs = <<>> THEN h
  ELSE LET c == Head(cs)
           h1 == IF ch = hd.rtpChannel
                 THEN sendInterleavedRtp(h, c, payload, ks[c])
                 ELSE IF ch = hd.rtcpChannel
                 THEN sendInterleavedRtcp(h, c, payload, ks[c])
                 ELSE h
       IN IF h1.clients[c].drain THEN h1
          ELSE DispatchUntilBlocked(h1, hd, ch, payload, Tail(cs), ks)

\* The dispatch of the publisher's data handler hd for one frame, over the
\* sessions cs of the clients map of stream 0; ks[c] is the k of the
\* processQueue the send to c ends in.
RECURSIVE Dispatch(_, _, _, _, _, _)
Dispatch(h, hd, ch, payload, cs, ks) ==
  IF cs = <<>> THEN h
  ELSE LET c == Head(cs)
           cl == h.clients[c]
           h1 == IF cl.transportType = "tcp" /\ cl.ref
                 THEN IF ch = hd.rtpChannel
                      THEN sendInterleavedRtp(h, c, payload, ks[c])
                      ELSE IF ch = hd.rtcpChannel
                      THEN sendInterleavedRtcp(h, c, payload, ks[c])
                      ELSE h
                 ELSE h
       IN Dispatch(h1, hd, ch, payload, Tail(cs), ks)

\* The frames of session c that are followed have room for one more.
RoomToRelay(c) ==
  Len(clients[c].queued) < MaxRelayed /\ Len(clients[c].written) < MaxWritten

\* One complete interleaved frame (ch, payload) reaches the data handler hd
\* that a TCP SETUP installed on publisher socket p, and is relayed.
relayFrame(p, hd, ch, payload, ks) ==
  LET role == IF ch = hd.rtpChannel THEN "rtp"
              ELSE IF ch = hd.rtcpChannel THEN "rtcp" ELSE "none"
      cs == IF 0 \in mounts[hd.m].streams
            THEN SetToSeq(sobj[hd.m][0].clients) ELSE <<>>
  IN
  /\ pubs[p].sock = "open"
  /\ hd \in pubs[p].handlers
  /\ \A c \in ClientIds : clients[c].made => RoomToRelay(c)
  /\ fan' = [kind |-> "tcp", role |-> role,
             playing |-> Playing(hd.m, hd.sid),
             offered |-> IF role = "none" THEN {} ELSE TcpFanOut(hd.m)]
  /\ Commit(Dispatch(Heap, hd, ch, payload, cs, ks))
  /\ UNCHANGED <<hooks, nMounts, authenticatedHeader, pubs, framingVars>>

\* The 'drain' event of the socket of session c, due once a write returned
\* false: the listener of the session's interleaver runs processQueue.
socketDrain(c, k) ==
  /\ clients[c].made /\ clients[c].drain
  /\ clients[c].rtpTcp = "open"
  /\ Len(clients[c].written) < MaxWritten
  /\ Commit(processQueue([Heap EXCEPT !.clients[c].drain = FALSE], c, k))
  /\ UNCHANGED <<hooks, nMounts, authenticatedHeader, pubs, fan, framingVars>>

\* ------------------------------------------------------------------ Spec
NoHooks == [pubAuth |-> FALSE, checkMount |-> FALSE, subAuth |-> FALSE,
            clientClose |-> FALSE]

\* The configurations that are followed: no hook, the hooks of the publisher
\* server, the hooks of the subscriber server.
HookConfigs ==
  {NoHooks,
   [NoHooks EXCEPT !.pubAuth = TRUE, !.checkMount = TRUE],
   [NoHooks EXCEPT !.subAuth = TRUE, !.clientClose = TRUE]}

NoPub == [sock |-> "open", pc |-> "idle", path |-> "a", auth |-> NoAuth,
          handlers |-> {}]

\* The servers after construction, no connection having sent anything.
Constructed ==
  /\ pool = InitPool
  /\ registry = [path \in Paths |-> NoMount]
  /\ nMounts = 0
  /\ mounts = [m \in MountIds |-> NoMountObj]
  /\ sobj = [m \in MountIds |-> [sid \in TrackIds |-> NoStreamObj]]
  /\ authenticatedHeader = NoAuth
  /\ pubs = [p \in Pubs |-> NoPub]
  /\ subs = [s \in Subs |-> "open"]
  /\ nWrappers = 0
  /\ wrappers = [w \in WrapperIds |-> NoWrapper]
  /\ csClients = {}
  /\ gone = [w \in WrapperIds |-> 0]
  /\ nClients = 0
  /\ clients = [c \in ClientIds |-> NoClient]
  /\ fan = NoFan

Init == hooks \in HookConfigs /\ Constructed /\ FramingIdle

Sessions == 0..MaxWrappers
Channels == {0, 1, 2}

\* The Authorization headers worth telling apart: without an authentication
\* hook no publisher handler reads the header.
AnnounceAuths == IF hooks.pubAuth THEN {"A", "Z", NoAuth} ELSE {NoAuth}
PubAuths == IF hooks.pubAuth THEN GoodAuths \cup {NoAuth} ELSE {NoAuth}

\* Sessions are created with the header "A" (or, with the hook, one it
\* rejects); a request that names a session carries any header.
SubAuths(session) ==
  IF session = 0
  THEN IF hooks.subAuth THEN {"A", "Z", NoAuth} ELSE {"A"}
  ELSE IF hooks.subAuth THEN GoodAuths \cup {NoAuth} ELSE GoodAuths

\* The ports whose bind may fail while RECORD on path is handled.
BusySets(path) ==
  LET m == registry[path]
  IN IF m = NoMount THEN {{}}
     ELSE IF \E sid \in mounts[m].streams : \E c \in sobj[m][sid].clients :
                clients[c].transportType = "udp"
     THEN SUBSET ({sobj[m][sid].port : sid \in mounts[m].streams} \cup Range(pool))
     ELSE {{}}

\* The outcomes of the binds of Client.setup: <<EADDRINUSE failures, whether
\* the last bind succeeds>>; a TCP session binds nothing.
BindOutcomes(tr) ==
  IF tr.kind = "udp" THEN (0..MaxSetupPasses) \X BOOLEAN ELSE {<<0, TRUE>>}

\* The requests and events of the publisher connections in P.
PublishRequests(P) ==
  \/ \E p \in P, path \in Paths : \E auth \in AnnounceAuths :
       announceRequest(p, path, auth)
  \/ \E p \in P, allowed \in BOOLEAN : announceEnd(p, allowed)
  \/ \E p \in P, path \in Paths, sid \in StreamIds, tcp \in BOOLEAN,
        ch \in PubChannelPairs : \E auth \in PubAuths :
       PublishSetupRequest(p, path, sid, tcp, ch, auth)
  \/ \E p \in P, path \in Paths, session \in 0..MaxMounts :
       \E busy \in BusySets(path), auth \in PubAuths :
         recordRequest(p, path, session, busy, auth)
  \/ \E p \in P, path \in Paths : \E auth \in PubAuths :
       PublishTeardownRequest(p, path, auth)
  \/ \E p \in P, withError \in BOOLEAN : PublisherSocketClosed(p, withError)
  \/ \E p \in P : publisherConnected(p)

\* The hooks a publisher's ANNOUNCE is suspended in resolve.
PublishHooks(P) == \E p \in P : announceAuthenticated(p)

PublishNext(P) == PublishRequests(P) \/ PublishHooks(P)

\* The requests and events of the subscriber side.
ClientEvents ==
  \/ \E s \in Subs, path \in Paths, sid \in StreamIds, session \in Sessions,
        tr \in SubTransports : \E auth \in SubAuths(session), b \in BindOutcomes(tr) :
       SubscriberRequest(s, ClientSetupRequest(s, path, sid, session, tr, auth,
                                               b[1], b[2]))
  \/ \E s \in Subs, session \in Sessions : \E auth \in SubAuths(session) :
       SubscriberRequest(s, playRequest(s, session, auth))
  \/ \E s \in Subs, session \in Sessions : \E auth \in SubAuths(session) :
       SubscriberRequest(s, ClientTeardownRequest(s, session, auth))
  \/ \E s \in Subs, session \in Sessions : \E auth \in SubAuths(session) :
       SubscriberRequest(s, optionsRequest(s, session, auth))
  \/ \E w \in WrapperIds : keepaliveExpired(w)
  \/ checkMounts
  \/ \E s \in Subs, withError \in BOOLEAN : SubscriberSocketClosed(s, withError)
  \/ \E c \in ClientIds : rtcpReceived(c)

\* The clientClose hook a clientGone call is suspended in resolves.
ClientHooks == \E w \in WrapperIds : clientGoneResolved(w)

ClientNext == ClientEvents \/ ClientHooks

\* The payloads that reach the ingress of the publisher connections in P.
IngressNext(P) ==
  \/ \E p \in P : \E hd \in pubs[p].handlers, ch \in Channels :
       publisherFrame(p, hd, ch)
  \/ \E m \in MountIds, sid \in StreamIds, role \in {"rtp", "rtcp"} :
       publisherDatagram(m, sid, role)

Next == PublishNext(Pubs) \/ ClientNext \/ IngressNext(Pubs)

\* The whole relay.
Spec == Init /\ [][Next]_vars

\* The publisher server alone, with every publisher connection.
PublishSpec == Init /\ [][PublishNext(Pubs)]_vars

\* The relay with one publisher connection at a time, payloads left out
\* (they change nothing but fan).
RelayNext == PublishNext({1}) \/ ClientNext

RelaySpec == Init /\ [][RelayNext]_vars

\* The relay without hooks, with the payloads.
IngressInit == hooks = NoHooks /\ Constructed /\ FramingIdle

IngressNextAll == PublishRequests({1}) \/ ClientEvents \/ IngressNext({1})

IngressSpec == IngressInit /\ [][IngressNextAll]_vars

\* The framing of a drawn sequence of packets, fed in chunks to the deframer.
FramingInit ==
  /\ hooks = NoHooks /\ Constructed
  /\ \E ps \in UNION {[1..n -> Packets] : n \in 0..MaxFrames} :
       sent = PairsOf(ps) /\ wire = WireOf(ps)
  /\ fed = 0 /\ buffer = <<>> /\ yielded = <<>>
  /\ audience = NoAudience

FramingNext == \E n \in 1..(MaxFrames * (4 + MaxPayload + MaxNoise)) : socketData(n)

FramingSpec == FramingInit /\ [][FramingNext]_vars

\* The interleaved relay: one publisher connection that sets its tracks up
\* over TCP, the subscribers with either transport, the frames with their
\* payloads, and the writes and 'drain' events of the subscribers' sockets.
InterleaveRequests ==
  \/ \E path \in Paths : announceRequest(1, path, NoAuth)
  \/ announceEnd(1, TRUE)
  \/ \E path \in Paths, sid \in TrackIds, ch \in PubChannelPairs :
       PublishSetupRequest(1, path, sid, TRUE, ch, NoAuth)
  \/ PublisherSocketClosed(1, FALSE)
  \/ \E s \in Subs, path \in Paths, sid \in TrackIds, session \in Sessions,
        tr \in {t \in SubTransports : t.kind \in {"tcp", "udp"}} :
       SubscriberRequest(s, ClientSetupRequest(s, path, sid, session, tr, "A",
                                               0, TRUE))
  \/ \E s \in Subs, session \in Sessions :
       SubscriberRequest(s, playRequest(s, session, "A"))
  \/ \E s \in Subs, session \in Sessions :
       SubscriberRequest(s, ClientTeardownRequest(s, session, "A"))
  \/ \E s \in Subs : SubscriberSocketClosed(s, FALSE)

InterleaveFrames ==
  \/ \E hd \in pubs[1].handlers, ch \in Channels, payload \in RelayPayloads,
        ks \in [ClientIds -> 0..1] : relayFrame(1, hd, ch, payload, ks)
  \/ \E c \in ClientIds, k \in 0..MaxRelayed : socketDrain(c, k)

InterleaveNext == InterleaveRequests \/ InterleaveFrames

InterleaveSpec == IngressInit /\ [][InterleaveNext]_vars

\* The publisher server with the authentication hook, every connection with
\* credentials of its own: the header its ANNOUNCEs carry, or one the hook
\* rejects; its later requests carry any header or none.
OwnHeader(p) == IF p = 1 THEN "A" ELSE "B"

AuthInit ==
  hooks = [NoHooks EXCEPT !.pubAuth = TRUE] /\ Constructed /\ FramingIdle

AuthNext ==
  \/ \E p \in Pubs, path \in Paths : \E auth \in {OwnHeader(p), "Z"} :
       announceRequest(p, path, auth)
  \/ \E p \in Pubs : announceAuthenticated(p)
  \/ \E p \in Pubs : announceEnd(p, TRUE)
  \/ \E p \in Pubs, path \in Paths, sid \in StreamIds, tcp \in BOOLEAN,
        ch \in PubChannelPairs, auth \in PubAuths :
       PublishSetupRequest(p, path, sid, tcp, ch, auth)
  \/ \E p \in Pubs, path \in Paths, session \in 0..MaxMounts,
        auth \in PubAuths : recordRequest(p, path, session, {}, auth)
  \/ \E p \in Pubs, path \in Paths, auth \in PubAuths :
       PublishTeardownRequest(p, path, auth)
  \/ \E p \in Pubs : PublisherSocketClosed(p, FALSE)
  \/ \E p \in Pubs : publisherConnected(p)

AuthSpec == AuthInit /\ [][AuthNext]_vars

\* The fan-out to several TCP sessions that play stream 0 of one mount, each
\* set up on a connection of its own with either pair of channels; the
\* publisher registered the channels 0-1.
FanSubs == 2
FanIds == 1..FanSubs
FanHandler == [m |-> 1, sid |-> 0, rtpChannel |-> 0, rtcpChannel |-> 1]

PlayingTcpSession(c, ch) ==
  [NoClient EXCEPT !.made = TRUE, !.open = TRUE, !.wrapper = c, !.mount = 1,
                   !.sid = 0, !.sock = c, !.transportType = "tcp",
                   !.rtpTcp = "open", !.ref = TRUE, !.rtpChannel = ch[1],
                   !.rtcpChannel = ch[2]]

FanInit ==
  /\ hooks = NoHooks /\ Constructed /\ DeframerIdle
  /\ \E chs \in [FanIds -> ChannelPairs] :
       audience = [clients |-> [c \in FanIds |-> PlayingTcpSession(c, chs[c])]]

fanRest == <<hooks, heapVars, nMounts, authenticatedHeader, pubs, fan, sent,
             wire, fed, buffer, yielded>>

\* One complete frame reaches the publisher's data handler: the dispatch over
\* the clients map of the stream, in the order of the PLAYs.
fanFrame(ch, payload, ks) ==
  /\ \A c \in FanIds : /\ Len(audience.clients[c].queued) < MaxRelayed
                       /\ Len(audience.clients[c].written) < MaxWritten
  /\ audience' = Dispatch(audience, FanHandler, ch, payload,
                          [c \in FanIds |-> c], ks)
  /\ UNCHANGED fanRest

\* The 'drain' event of the socket of session c.
fanDrain(c, k) ==
  /\ audience.clients[c].drain
  /\ Len(audience.clients[c].written) < MaxWritten
  /\ audience' = processQueue([audience EXCEPT !.clients[c].drain = FALSE], c, k)
  /\ UNCHANGED fanRest

FanNext ==
  \/ \E ch \in Channels, payload \in RelayPayloads, ks \in [FanIds -> 0..1] :
       fanFrame(ch, payload, ks)
  \/ \E c \in FanIds, k \in 0..MaxRelayed : fanDrain(c, k)

FanSpec == FanInit /\ [][FanNext]_vars

\* The stalled-mount sweep and the keepalive timers under the scheduling of
\* the event loop: an interval callback that is due runs, and so does a
\* timer that stays armed.  No hooks, no payloads.
SweepNext == PublishRequests({1}) \/ ClientEvents

SweepFairness ==
  /\ WF_vars(checkMounts)
  /\ \A w \in WrapperIds : WF_vars(keepaliveExpired(w))

SweepSpec == IngressInit /\ [][SweepNext]_vars /\ SweepFairness

\* =============================================================== claims
\* ------------------------------------------------------------ C1 and C2
\* How many streams and open sessions hold the pair that starts at port: a
\* stream from createStream to Mount.close, a UDP session while it is open.
StreamsHolding(port) ==
  {ms \in MountIds \X StreamIds :
     /\ mounts[ms[1]].made /\ ms[2] \in mounts[ms[1]].streams
     /\ sobj[ms[1]][ms[2]].port = port}

SessionsHolding(port) ==
  {c \in ClientIds : clients[c].made /\ clients[c].open /\ clients[c].port = port}

Holders(port) == Cardinality(StreamsHolding(port)) + Cardinality(SessionsHolding(port))

AllClosed ==
  /\ \A m \in MountIds : mounts[m].streams = {}
  /\ \A c \in ClientIds : ~clients[c].open

\* C1: port conservation.  Once every mount has been closed and every
\* subscriber session has been closed, the pool holds exactly the ports it
\* was configured with, each once.
C1_PortConservation == AllClosed => pool = InitPool

\* C2: port ownership.  No port is held by two owners, no port is both in
\* the pool and held, and every port of the configured pool is in the pool
\* or held.
C2_PortOwnership ==
  \A port \in 1..(2 * PoolPairs + 1) :
    /\ Holders(port) <= 1
    /\ ~(port \in Range(pool) /\ Holders(port) > 0)
    /\ port \in Range(InitPool) => (port \in Range(pool) \/ Holders(port) > 0)

\* ------------------------------------------------------------------- C3
\* C3: fan-out totality.  A payload admitted at a publisher's ingress on an
\* RTP or RTCP channel is offered to every session in PLAY state on the
\* stream when it is admitted.
C3_FanOutTotality ==
  fan.role \in {"rtp", "rtcp"} => fan.playing \subseteq fan.offered

\* Reached: a frame on the RTP channel of a TCP publisher is admitted while
\* a UDP session plays the stream.
C3_Witness ==
  /\ fan.kind = "tcp" /\ fan.role = "rtp"
  /\ \E c \in fan.playing : clients[c].transportType = "udp"

\* ------------------------------------------------------------------- C4
\* The outcomes of the four handlers for a request on socket s that names
\* session X and carries the header auth.
SessionRequests(s, X, auth) ==
  {playRequest(s, X, auth), ClientTeardownRequest(s, X, auth),
   optionsRequest(s, X, auth)}
    \cup UNION {{ClientSetupRequest(s, path, sid, X, tr, auth, b[1], b[2]) :
                   b \in BindOutcomes(tr)} :
                 path \in Paths, sid \in StreamIds, tr \in SubTransports}

\* The requests C4 is about: socket, session in ClientServer.clients, and a
\* header (or none) that is not the one stored on the session's wrapper.
ForeignRequests ==
  {r \in [s : Subs, X : WrapperIds, auth : Auths \cup {NoAuth}] :
     /\ subs[r.s] = "open"
     /\ r.X \in csClients
     /\ wrappers[r.X].auth # r.auth}

\* Nothing but the timers of the wrappers in W differs between the objects
\* and heap h.
OnlyTimersOf(h, W) ==
  [h EXCEPT !.wrappers = [w \in WrapperIds |->
                            IF w \in W
                            THEN [@[w] EXCEPT !.timer = wrappers[w].timer]
                            ELSE @[w]]] = Heap

\* C4: session authority, with an authentication hook configured.  Every
\* OPTIONS, SETUP, PLAY or TEARDOWN that names session X with a header other
\* than the one stored on X is answered 401, and plays nothing, closes
\* nothing and removes nothing: the objects are as they were but for the
\* keepalive timers that the 'data' listeners of the TCP sessions on the
\* request's socket re-arm for any bytes, and wrapper X is as it was unless
\* it has such a session on that socket.
C4_SessionAuthority ==
  hooks.subAuth =>
    \A r \in ForeignRequests : \A o \in SessionRequests(r.s, r.X, r.auth) :
      /\ o.status = 401
      /\ OnlyTimersOf(o.h, DataListeners(Heap, r.s))
      /\ r.X \notin DataListeners(Heap, r.s) => o.h.wrappers[r.X] = wrappers[r.X]

\* Reached: a session created with a header the hook accepts, set up over
\* TCP and not playing, whose timer a request on its socket has armed.
C4_Witness ==
  /\ hooks.subAuth
  /\ \E r \in ForeignRequests :
       /\ r.X \in DataListeners(Heap, r.s)
       /\ r.auth \in GoodAuths
       /\ wrappers[r.X].timer
       /\ \A c \in wrappers[r.X].clients :
            clients[c].open /\ c \notin sobj[clients[c].mount][clients[c].sid].clients

\* C4 as written: whatever the configuration, such a request is answered 401
\* and wrapper X is as it was, its timer included, with no session played or
\* closed.
C4_AsWritten ==
  \A r \in ForeignRequests : \A o \in SessionRequests(r.s, r.X, r.auth) :
    /\ o.status = 401
    /\ o.h.wrappers[r.X] = wrappers[r.X]
    /\ o.h.clients = clients /\ o.h.sobj = sobj /\ o.h.csClients = csClients

\* ------------------------------------------------------------------- C5
\* C5: close idempotence.  In every reachable state, closing a session twice
\* leaves what closing it once leaves, closing a closed session changes
\* nothing, closing a mount a second time reports no port and changes
\* nothing, and so for an interleaver.
C5_CloseIdempotent ==
  /\ \A c \in ClientIds : clients[c].made =>
       /\ ClientClose(ClientClose(Heap, c), c) = ClientClose(Heap, c)
       /\ ~clients[c].open => ClientClose(Heap, c) = Heap
       /\ RtpTcpClose(RtpTcpClose(Heap, c), c) = RtpTcpClose(Heap, c)
  /\ \A m \in MountIds : mounts[m].made =>
       LET r == MountClose(Heap, m)
       IN MountClose(r.h, m) = [h |-> r.h, ports |-> <<>>]

\* Reached: a UDP session closed by its wrapper and again by the 'close' of
\* its control socket, its port once in the pool.
C5_Witness ==
  \E c \in ClientIds :
    /\ clients[c].made /\ ~clients[c].open /\ clients[c].port # NoPort
    /\ clients[c].wrapper \notin csClients
    /\ subs[clients[c].sock] = "closed"
    /\ Cardinality({i \in DOMAIN pool : pool[i] = clients[c].port}) = 1

\* ------------------------------------------------------------------- C6
\* The open sessions made on mount m.
Attached(m) ==
  {c \in ClientIds : clients[c].made /\ clients[c].open /\ clients[c].mount = m}

\* C6: publisher disconnect.  When the socket of a publisher closes, for the
\* mount it announced, set up and recorded: the path is out of the registry,
\* every session made on the mount is closed (a TCP session: its interleaver
\* is, and with it the control socket), and the ports of the mount's streams
\* and of those sessions are in the pool.
C6_DisconnectReleases ==
  [][\A p \in Pubs : (pubs[p].sock = "open" /\ pubs'[p].sock = "closed") =>
       \A m \in MountIds :
         (/\ mounts[m].pub = p /\ mounts[m].recorded /\ mounts[m].streams # {}
          /\ registry[mounts[m].path] = m) =>
           /\ registry'[mounts[m].path] = NoMount
           /\ \A c \in Attached(m) :
                ~clients'[c].open \/ clients'[c].rtpTcp = "closed"
           /\ \A sid \in mounts[m].streams : sobj[m][sid].port \in Range(pool')
           /\ \A c \in Attached(m) :
                clients[c].port # NoPort => clients[c].port \in Range(pool')]_vars

\* ------------------------------------------------------------------- C7
\* C7: duplicate mount.  An ANNOUNCE whose body has ended while its path is
\* mounted (whatever hooks it was suspended in, whoever mounted the path) is
\* answered 503 (403 when the checkMount hook refuses it) and leaves the
\* registry, the mounts, their streams and the pool as they are; and no step
\* replaces the mount a path is mounted with.
C7_DuplicateMount ==
  [][/\ \A p \in Pubs, allowed \in BOOLEAN :
          (announceEnd(p, allowed) /\ registry[pubs[p].path] # NoMount) =>
            /\ announceStatus(p, allowed) =
                 IF hooks.checkMount /\ ~allowed THEN 403 ELSE 503
            /\ UNCHANGED <<registry, nMounts, mounts, sobj, pool>>
     /\ \A path \in Paths :
          registry'[path] # registry[path] =>
            registry[path] = NoMount \/ registry'[path] = NoMount]_vars

\* Reached: the path is mounted by one connection, with a stream, while the
\* ANNOUNCE of another connection for the same path, suspended in a hook
\* when the first was answered, is about to be answered.
C7_Witness ==
  \E p \in Pubs, path \in Paths :
    /\ hooks.checkMount
    /\ pubs[p].pc = "body" /\ pubs[p].path = path
    /\ registry[path] # NoMount
    /\ mounts[registry[path]].pub \notin {0, p}
    /\ mounts[registry[path]].streams # {}

\* ------------------------------------------------------------------- C8
\* Wrapper w has completed PLAY: each of its sessions is in the clients map
\* of its stream.
Played(w) ==
  /\ wrappers[w].made /\ wrappers[w].clients # {}
  /\ \A c \in wrappers[w].clients :
       /\ clients[c].sid # NoStream
       /\ c \in sobj[clients[c].mount][clients[c].sid].clients

\* C8: keepalive expiry.  When the timer of a wrapper that has completed
\* PLAY fires, every session of the wrapper is closed and the clientClose
\* hook is invoked (the wrapper leaves ClientServer.clients when the hook
\* resolves); without a hook the wrapper leaves ClientServer.clients at once.
C8_KeepaliveExpiry ==
  [][\A w \in WrapperIds : (Played(w) /\ keepaliveExpired(w)) =>
       /\ \A c \in wrappers[w].clients : ~clients'[c].open
       /\ IF hooks.clientClose THEN gone'[w] = gone[w] + 1
          ELSE w \notin csClients']_vars

\* ------------------------------------------------------------------- C9
\* Wrapper w is in ClientServer.clients and the registry does not hold the
\* mount it is attached to.
Orphaned(w) ==
  /\ w \in csClients
  /\ registry[mounts[wrappers[w].mount].path] # wrappers[w].mount

\* C9: stalled-mount sweep.  A wrapper in ClientServer.clients whose mount
\* is no longer in the registry eventually has all its sessions closed and
\* is out of ClientServer.clients.
C9_StalledSweep ==
  \A w \in WrapperIds :
    Orphaned(w) ~>
      (w \notin csClients /\ \A c \in wrappers[w].clients : ~clients[c].open)

\* ------------------------------------------------------------------ C10
IsPrefix(a, b) == Len(a) <= Len(b) /\ SubSeq(b, 1, Len(a)) = a

\* C10: framing round-trip.  However the bytes are split into chunks, the
\* deframer yields the framed (channel, payload) pairs in their order and
\* nothing else, and once the last byte has been fed it has yielded every
\* one of them, the bytes other than '$' between the frames being discarded.
C10_FramingRoundTrip ==
  /\ IsPrefix(yielded, sent)
  /\ fed = Len(wire) => yielded = sent /\ buffer = <<>>

\* Reached: two frames, noise before the first, a '$' in a payload and as a
\* channel, all yielded after the last chunk.
C10_Witness ==
  /\ Len(sent) = MaxFrames /\ fed = Len(wire) /\ yielded = sent
  /\ wire[1] # Dollar
  /\ \E i \in DOMAIN sent : Dollar \in Range(sent[i].payload)
  /\ \E i \in DOMAIN sent : sent[i].channel = Dollar

\* The frames a reader of the bytes of the frames fs finds in them.
RECURSIVE Flatten(_)
Flatten(fs) == IF fs = <<>> THEN <<>> ELSE Head(fs) \o Flatten(Tail(fs))

FramesIn(fs) == Deframe(Flatten(fs), <<>>).out

\* The frames put on the queue of session c by the step.
NewlyQueued(c) ==
  SubSeq(clients'[c].queued, Len(clients[c].queued) + 1,
         Len(clients'[c].queued))

\* The TCP sessions in PLAY state on stream sid of mount m.
PlayingTcp(m, sid) ==
  {c \in Playing(m, sid) : clients[c].transportType = "tcp"}

\* C11: when a frame with payload P arrives on the RTP (RTCP) channel the
\* publisher registered for a stream, every TCP session playing that stream
\* is handed exactly one frame, with payload P and its own RTP (RTCP)
\* channel; a frame on any other channel is handed to no session.
C11_ChannelRemapping ==
  [][\A hd \in pubs[1].handlers, ch \in Channels, payload \in RelayPayloads,
        ks \in [ClientIds -> 0..1] :
       relayFrame(1, hd, ch, payload, ks) =>
         /\ ch = hd.rtpChannel =>
              \A c \in PlayingTcp(hd.m, hd.sid) :
                FramesIn(NewlyQueued(c)) =
                  <<[channel |-> clients[c].rtpChannel, payload |-> payload]>>
         /\ ch = hd.rtcpChannel =>
              \A c \in PlayingTcp(hd.m, hd.sid) :
                FramesIn(NewlyQueued(c)) =
                  <<[channel |-> clients[c].rtcpChannel, payload |-> payload]>>
         /\ ch \notin {hd.rtpChannel, hd.rtcpChannel} =>
              \A c \in ClientIds : NewlyQueued(c) = <<>>]_vars

\* C12: for every TCP session the frames its socket was handed are a prefix
\* of the frames put on its queue, in the same order: none is lost,
\* duplicated or reordered, whatever the writes return and whenever the
\* socket drains.
C12_QueueOrder ==
  \A c \in ClientIds :
    clients[c].made /\ clients[c].transportType = "tcp" =>
      IsPrefix(clients[c].written, clients[c].queued)

\* The sessions whose open flag is false or whose interleaver is closed.
Shut == {c \in ClientIds : clients[c].made /\
                             (~clients[c].open \/ clients[c].rtpTcp = "closed")}

\* C13: once a session's open flag is false or its interleaver is closed,
\* its queue is empty, and sendRtp, sendRtcp, sendInterleavedRtp,
\* sendInterleavedRtcp and a 'drain' hand nothing to any socket and leave the
\* queue empty, whatever the packet and whatever a write would return; the
\* open flag never returns to true, nor does a closed interleaver reopen.
C13_SendsAfterClose ==
  /\ [](\A c \in Shut :
          /\ clients[c].sendQueue = <<>>
          /\ \A packet \in RelayPayloads, k \in 0..MaxRelayed :
               /\ sendRtp(Heap, c, packet, k) = Heap
               /\ sendRtcp(Heap, c, packet, k) = Heap
               /\ sendInterleavedRtp(Heap, c, packet, k) = Heap
               /\ sendInterleavedRtcp(Heap, c, packet, k) = Heap
               /\ processQueue(Heap, c, k) = Heap)
  /\ [][\A c \in ClientIds : clients[c].made =>
          /\ ~clients[c].open => ~clients'[c].open
          /\ clients[c].rtpTcp = "closed" => clients'[c].rtpTcp = "closed"]_vars

\* Reached: a TCP session closed after frames were queued for it and its
\* socket had returned false to a write.
C13_Witness ==
  \E c \in ClientIds :
    /\ clients[c].made /\ ~clients[c].open /\ clients[c].rtpTcp = "closed"
    /\ clients[c].queued # <<>>
    /\ Len(clients[c].written) > Len(clients[c].queued)

\* C14: after a publisher's TEARDOWN of a mounted path is answered, every
\* port of the mount's streams is in the pool and every session made on the
\* mount is closed.
C14_TeardownDestroys ==
  [][\A path \in Paths, auth \in PubAuths :
       (/\ PublishTeardownRequest(1, path, auth)
        /\ PubCheckAuthenticated(auth)
        /\ registry[path] # NoMount) =>
         LET m == registry[path]
         IN /\ \A sid \in mounts[m].streams :
                 sobj[m][sid].port \in Range(pool')
            /\ \A c \in Attached(m) : ~clients'[c].open]_vars

\* The connections whose ANNOUNCE was accepted and that are still open.
Announced == {p \in Pubs : \E m \in MountIds : mounts[m].made /\ mounts[m].pub = p}

\* C15: once a connection's ANNOUNCE was accepted with a header, the check
\* its SETUP, RECORD and TEARDOWN begin with passes with that header and
\* fails (401) with any other or none, whatever the other connections
\* announced in between.
C15_PerConnectionAuth ==
  \A p \in Announced : \A auth \in PubAuths :
    PubCheckAuthenticated(auth) <=> auth = OwnHeader(p)

\* C16: a RECORD that passes the authentication check and whose path has no
\* mount, or whose Session header is not the id of the mount at the path, is
\* answered 454 and changes nothing: no Mount.setup, no port taken or
\* returned, whichever binds would fail.
C16_RecordRefused ==
  \A path \in Paths, session \in 0..MaxMounts, auth \in PubAuths :
    \A busy \in SUBSET (Range(InitPool)) :
      (/\ PubCheckAuthenticated(auth)
       /\ (registry[path] = NoMount \/ registry[path] # session)) =>
        recordOutcome(Heap, path, session, busy, auth) =
          [status |-> 454, h |-> Heap]

\* Reached: the path is mounted a second time, the mount has a stream with a
\* UDP subscriber playing and is not recorded; a RECORD with the id of the
\* first mount, or with none, is one the claim is about.
C16_Witness ==
  /\ registry["a"] = 2 /\ mounts[1].made
  /\ ~mounts[2].recorded
  /\ \E sid \in mounts[2].streams : \E c \in sobj[2][sid].clients :
       clients[c].transportType = "udp"

\* C17: every subscriber SETUP that ends in an error (a Session header that
\* names no wrapper, no or an unusable Transport, an empty pool, binds that
\* fail, a rejected authentication) is answered with a status, as is every
\* SETUP that succeeds: no handler returns without a response.
C17_ErrorsAnswered ==
  \A s \in Subs, path \in Paths, sid \in StreamIds, session \in Sessions,
     tr \in SubTransports :
    \A auth \in SubAuths(session), b \in BindOutcomes(tr) :
      LET o == ClientSetupRequest(s, path, sid, session, tr, auth, b[1], b[2])
      IN subs[s] = "open" /\ o.room => o.status # 0

\* C18: when the socket of a publisher closes, a path at which the registry
\* holds a mount announced by another connection keeps that mount.
C18_DisconnectOwnMount ==
  [][\A p \in Pubs : (pubs[p].sock = "open" /\ pubs'[p].sock = "closed") =>
       \A path \in Paths :
         (registry[path] # NoMount /\ mounts[registry[path]].pub # p) =>
           registry'[path] = registry[path]]_vars

\* C19: right after Client.close of an open session its id is not in the
\* clients map of its stream; for a TCP session it is not in the tcpClients
\* map either, and for a UDP session its port is in the pool.
C19_CloseUnregisters ==
  \A c \in ClientIds :
    (clients[c].made /\ clients[c].open /\ clients[c].sid # NoStream) =>
      LET h == ClientClose(Heap, c)
          stream == h.sobj[clients[c].mount][clients[c].sid]
      IN /\ c \notin stream.clients
         /\ clients[c].transportType = "tcp" => c \notin stream.tcpClients
         /\ clients[c].transportType = "udp" =>
              clients[c].port \in Range(h.pool)

\* The streams of mount m with a UDP session in their clients map.
UdpStreams(h, m) ==
  {sid \in h.mounts[m].streams :
     \E c \in h.sobj[m][sid].clients : h.clients[c].transportType = "udp"}

\* C20: Mount.setup of a registered mount, whatever the ports whose bind
\* fails with address-in-use: when the pool holds a port that can be bound,
\* setup ends within as many restarts as there are ports, every stream with
\* UDP sessions bound to its recorded pair; when a stream's port cannot be
\* bound and the pool is empty, setup fails.
C20_SetupCycles ==
  \A m \in MountIds : \A busy \in SUBSET Range(InitPool) :
    (mounts[m].made /\ registry[mounts[m].path] = m) =>
      LET r == MountSetup(Heap, m, busy, PoolPairs + 1)
      IN /\ (\E i \in DOMAIN pool : pool[i] \notin busy) =>
              /\ r.done
              /\ \A sid \in UdpStreams(Heap, m) :
                   /\ r.h.sobj[m][sid].port \notin busy
                   /\ r.h.sobj[m][sid].lport = r.h.sobj[m][sid].port
         /\ (pool = <<>> /\ \E sid \in UdpStreams(Heap, m) :
                              sobj[m][sid].port \in busy) => r.failed

\* Client.setup of session c when the binds of the ports in busy fail with
\* EADDRINUSE for as long as the SETUP is handled: one failing pass after the
\* other, until a bind succeeds; done is FALSE when it is still retrying
\* after fuel retries.
RECURSIVE ClientSetupBusy(_, _, _, _)
ClientSetupBusy(h, c, busy, fuel) ==
  IF h.clients[c].port \notin busy THEN [h |-> h, done |-> TRUE]
  ELSE IF fuel = 0 THEN [h |-> h, done |-> FALSE]
  ELSE ClientSetupBusy(ClientSetup(h, c, 1), c, busy, fuel - 1)

\* The ports of the pool p with the port x, as a bag.
PortsWith(p, x) ==
  [q \in Range(p) \cup {x} |->
     Cardinality({i \in DOMAIN p : p[i] = q}) + (IF q = x THEN 1 ELSE 0)]

\* C21: when the bind of the pair of an open UDP session fails with
\* address-in-use and the pool holds a pair that can be bound, Client.setup
\* ends within as many retries as there are pairs, the session on a pair
\* that can be bound and is not the one that failed, the failed pair back
\* in the pool once.
C21_SetupRecovers ==
  \A c \in ClientIds : \A busy \in SUBSET Range(InitPool) :
    (/\ clients[c].made /\ clients[c].open
     /\ clients[c].transportType = "udp"
     /\ clients[c].port \in busy
     /\ \E i \in DOMAIN pool : pool[i] \notin busy) =>
      LET r == ClientSetupBusy(Heap, c, busy, PoolPairs + 1)
      IN /\ r.done
         /\ r.h.clients[c].port \notin busy
         /\ PortsWith(r.h.pool, r.h.clients[c].port) =
              PortsWith(pool, clients[c].port)

\* C22: new Client for a wrapper in ClientServer.clients fails when the
\* request's path is not the mount's, when its stream id selects no stream
\* of the mount, or when it has no Transport header; the failed construction
\* registers no session in the wrapper or in a stream and takes no port.
C22_ConstructionValidates ==
  \A w \in csClients, s \in Subs, path \in Paths, sid \in TrackIds,
     tr \in SubTransports :
    (wrappers[w].made /\ nClients < MaxClients) =>
      LET m == wrappers[w].mount
          a == addClient(Heap, w, nClients + 1, s, path, sid, tr)
      IN (\/ mounts[m].path # path
          \/ sid \notin mounts[m].streams
          \/ tr.kind = "none") => (~a.ok /\ a.h = Heap)

\* The sessions the step puts a frame on the queue of.
Receivers == {c \in ClientIds : clients[c].made /\ NewlyQueued(c) # <<>>}

\* C23: a frame that arrives on a channel of the publisher's TCP SETUP of
\* stream N is handed to the TCP sessions playing stream N of the mount, and
\* to no session of another stream or mount.
C23_StreamFanOut ==
  [][\A hd \in pubs[1].handlers, payload \in RelayPayloads,
        ks \in [ClientIds -> 0..1] :
       \A ch \in {hd.rtpChannel, hd.rtcpChannel} :
         relayFrame(1, hd, ch, payload, ks) =>
           /\ PlayingTcp(hd.m, hd.sid) \subseteq Receivers
           /\ \A c \in Receivers :
                clients[c].mount = hd.m /\ clients[c].sid = hd.sid]_vars

\* C24: whatever the other sessions' sockets do (a write refused, a drain
\* pending, frames waiting in their queues), a frame that arrives on a
\* channel of the publisher is handed at once to the socket of every playing
\* TCP session whose own queue is empty and whose own socket takes the write.
C24_NoHoldUp ==
  [][\A ch \in {FanHandler.rtpChannel, FanHandler.rtcpChannel},
        payload \in RelayPayloads, ks \in [FanIds -> 0..1] :
       fanFrame(ch, payload, ks) =>
         \A c \in FanIds :
           (audience.clients[c].sendQueue = <<>> /\ ks[c] >= 1) =>
             /\ Len(audience'.clients[c].written) =
                  Len(audience.clients[c].written) + 1
             /\ FramesIn(<<audience'.clients[c].written[
                             Len(audience'.clients[c].written)]>>) =
                  <<[channel |-> IF ch = FanHandler.rtpChannel
                                 THEN audience.clients[c].rtpChannel
                                 ELSE audience.clients[c].rtcpChannel,
                     payload |-> payload]>>]_vars

\* Reached: the first session of the clients map was refused its first write
\* and has not drained since, two frames wait in its queue, and the second
\* session's socket has been handed both.
C24_Witness ==
  /\ audience # NoAudience
  /\ audience.clients[1].drain
  /\ Len(audience.clients[1].sendQueue) = 2
  /\ Len(audience.clients[2].queued) = 2
  /\ audience.clients[2].written = audience.clients[2].queued

\* The wrappers ClientWrapper.close has run for: out of ClientServer.clients,
\* or waiting there for the clientClose hook of their clientGone.
ClosedWrappers ==
  {w \in WrapperIds : wrappers[w].made /\ (w \notin csClients \/ gone[w] > 0)}

\* C25: a wrapper that was closed has no pending keepalive timer, so that no
\* expiry fires for it (a wrapper has one timer field, cleared before it is
\* set: it never has two pending timers).
C25_TimerDiscipline == \A w \in ClosedWrappers : ~wrappers[w].timer

\* C26: createStream with a stream id the mount already has fails and leaves
\* the mount's streams and the port pool as they were; createStream with an
\* empty pool fails and adds no stream.
C26_CreateStreamFails ==
  \A m \in MountIds : \A sid \in TrackIds :
    LET r == createStream(Heap, m, sid)
    IN mounts[m].made =>
         /\ sid \in mounts[m].streams =>
              /\ ~r.ok
              /\ r.h.mounts[m].streams = mounts[m].streams
              /\ r.h.sobj[m] = sobj[m]
              /\ r.h.pool = pool
         /\ pool = <<>> =>
              /\ ~r.ok
              /\ r.h.mounts[m].streams = mounts[m].streams

\* The pool is empty while one mount holds a stream and a mount lacks a
\* stream id: both failures of createStream are at hand.
C26_Witness ==
  /\ pool = <<>>
  /\ \E m \in MountIds : \E sid \in TrackIds :
       mounts[m].made /\ sid \notin mounts[m].streams
  /\ \E m \in MountIds : mounts[m].made /\ mounts[m].streams # {}

\* ------------------------------------------------------------------ C27
\* Every subscriber connection has closed, so the control connection that
\* created wrapper w has.
ControlClosed(w) ==
  /\ w \in csClients
  /\ \A s \in Subs : subs[s] = "closed"

\* C27: a wrapper in ClientServer.clients whose RTSP control connection has
\* closed is eventually out of ClientServer.clients, whether or not PLAY was
\* reached, whether or not its session was constructed, and while its mount
\* is still published.
C27_WrapperReclaimed ==
  \A w \in WrapperIds : ControlClosed(w) ~> (w \notin csClients)

\* ------------------------------------------------------------------ C28
\* The sessions in the clients map of stream sid of mount m.
StreamClients(m, sid) == sobj[m][sid].clients

\* C28: every subscriber session in a stream's clients map is open; a
\* session that was closed is not put back by a later PLAY.
C28_AttachedOpen ==
  \A m \in MountIds : \A sid \in TrackIds :
    \A c \in StreamClients(m, sid) : clients[c].open

\* ------------------------------------------------------------------ C29
\* The registry holds, at path, a mount that another connection than p
\* announced.
AnnouncedByOther(p, path) ==
  /\ registry[path] # NoMount
  /\ mounts[registry[path]].pub # p

\* C29: a publisher TEARDOWN removes a mount from the registry only when the
\* requesting connection announced it: a TEARDOWN for a path that another
\* connection announced leaves that mount in the registry.
C29_TeardownOwnMount ==
  [][\A p \in Pubs, path \in Paths, auth \in PubAuths :
       (AnnouncedByOther(p, path) /\ PublishTeardownRequest(p, path, auth))
         => registry'[path] = registry[path]]_vars

\* ------------------------------------------------------------------ C30
\* The calls of the clientClose hook made for wrapper w that have not
\* resolved.  clientGone invokes the hook only for a wrapper it finds in
\* ClientServer.clients, and the first call that resolves deletes the
\* wrapper, so two calls for one wrapper are two calls pending together.
HookCalls(w) == gone[w]

\* C30: the clientClose hook is invoked at most once per wrapper, whatever
\* the interleaving of keepalive expiry, subscriber TEARDOWN and the sweep,
\* also when a TEARDOWN or a sweep comes while a hook call for the wrapper is
\* pending; and clientGone is not run for a wrapper id that is absent from
\* ClientServer.clients (TEARDOWN and the sweep look the wrapper up first,
\* the keepalive expiry does not).
C30_HookOnce ==
  /\ [](\A w \in WrapperIds : HookCalls(w) <= 1)
  /\ [][\A w \in WrapperIds : keepaliveExpired(w) => w \in csClients]_vars

====
